---- MODULE Spec2Model ----
(***************************************************************************)
(* Model of tstuyver/multitask_QM_GNN:                                     *)
(*   - the cross-validation driver of cross_val.py (specification Spec),   *)
(*   - the descriptor normalizers of process_descs/post_process.py         *)
(*     (specification SpecNorm).                                           *)
(* Python's None is modelled by a flag beside the value; floating point    *)
(* numbers are modelled by exact rationals <<numerator, denominator>>.     *)
(***************************************************************************)
EXTENDS Integers, Sequences, FiniteSets, TLC

VARIABLES
    \* ---- cross_val.py ----
    df,                                  \* the shuffled dataset: sequence of reaction ids
    k_fold,                              \* args.k_fold
    ensemble_size,                       \* args.ensemble_size
    i,                                   \* fold index of the outer loop
    j,                                   \* member index of the inner loop
    pc,                                  \* position of the script
    train, valid, test,                  \* result of split_data_cross_val
    predicted_activation_energies_ind,   \* per-member predictions of the fold
    predicted_reaction_energies_ind,
    predicted_activation_energies,       \* ensemble predictions of the fold
    predicted_reaction_energies,
    rmse_activation_energy_list,
    rmse_reaction_energy_list,
    mae_activation_energy_list,
    mae_reaction_energy_list,
    fs,                                  \* files written below args.model_dir
    reports,                             \* the final reports logged
    err,                                 \* the exception that ended the run, or "none"
    started,                             \* log of the (fold, member) iterations begun
    \* ---- process_descs/post_process.py ----
    loaded,                              \* which descriptor table was loaded: "atom", "reaction"
    shift,                               \* the loaded raw values: row key -> offset
    dropped,                             \* the descriptor column the loaded table lacks, or "none"
    byref,                               \* whether the caller passes the loaded table itself
                                         \* (TRUE) or a copy of it (FALSE) to the normalizers
    qmdf,                                \* the atom descriptor table (a DataFrame)
    df_reaction_desc,                    \* the reaction descriptor table (a DataFrame)
    scalers,                             \* the scaler bundle the last call returned
    have_scalers,                        \* whether a bundle has been returned yet
    normalized,                          \* the table the last call returned
    returned,                            \* whether the last call returned (did not raise)
    ncalls,                              \* number of normalization calls made
    nerr,                                \* the exception a normalization call raised, or "none"
    last                                 \* the arguments of the last call

drv_vars == <<df, k_fold, ensemble_size, i, j, pc, train, valid, test,
              predicted_activation_energies_ind, predicted_reaction_energies_ind,
              predicted_activation_energies, predicted_reaction_energies,
              rmse_activation_energy_list, rmse_reaction_energy_list,
              mae_activation_energy_list, mae_reaction_energy_list,
              fs, reports, err, started>>

norm_vars == <<loaded, shift, dropped, byref, qmdf, df_reaction_desc, scalers, have_scalers,
               normalized, returned, ncalls, nerr, last>>

vars == <<drv_vars, norm_vars>>

\* ------------------------------------------------------------------------
\* Bounds of the model
\* ------------------------------------------------------------------------
MaxN == 3
MaxK == 3
MaxEns == 2
MaxSeed == 1

\* the values an ensemble member may predict for the first test reaction
PredVals == {0, 1}

\* ------------------------------------------------------------------------
\* Exact rational arithmetic (stands for the floats of numpy)
\* ------------------------------------------------------------------------
Abs(x) == IF x < 0 THEN -x ELSE x

RECURSIVE GCD(_, _)
GCD(a, b) == IF b = 0 THEN a ELSE GCD(b, a % b)

\* n/d in lowest terms with a positive denominator (d # 0)
Rat(n, d) ==
    LET g == GCD(Abs(n), Abs(d))
        s == IF d < 0 THEN -1 ELSE 1
    IN  <<(s * n) \div g, (s * d) \div g>>

RInt(x) == <<x, 1>>
RAdd(a, b) == Rat(a[1] * b[2] + b[1] * a[2], a[2] * b[2])
RSub(a, b) == Rat(a[1] * b[2] - b[1] * a[2], a[2] * b[2])
RMul(a, b) == Rat(a[1] * b[1], a[2] * b[2])
RDiv(a, b) == Rat(a[1] * b[2], a[2] * b[1])
RLess(a, b) == a[1] * b[2] < b[1] * a[2]
RZero == <<0, 1>>

RECURSIVE SeqSum(_)
SeqSum(s) == IF s = <<>> THEN 0 ELSE Head(s) + SeqSum(Tail(s))

Range(s) == {s[p] : p \in DOMAIN s}

\* ------------------------------------------------------------------------
\* cross_val.py: the cross-validation driver
\* ------------------------------------------------------------------------

\* df.sample(frac=1, random_state=seed): a seeded permutation of the n rows
Shuffle(n, seed) == [p \in 1..n |-> ((p - 1 + seed) % n)]

\* np.linspace(0, len(df), k + 1).astype(int), indexed 0..k
KFoldArangeRounded(n, k) == [p \in 0..k |-> (p * n) \div (k + 1)]

k_fold_arange_of(n, k) == [p \in 0..k |-> (p * n) \div k]

k_fold_arange == k_fold_arange_of(Len(df), k_fold)

\* rows [lo, hi) of the shuffled dataset, in order
Rows(lo, hi) == [p \in 1..(hi - lo) |-> df[lo + p]]

\* split_data_cross_val: the test set of fold f is the f-th contiguous range
TestOfFold(f) == Rows(k_fold_arange[f], k_fold_arange[f + 1])

\* the train+validation pool of fold f: the rows outside the test range
PoolOfFold(f) ==
    Rows(0, k_fold_arange[f]) \o Rows(k_fold_arange[f + 1], Len(df))

\* the pool is split with a seed derived from (fold, member): here the row at
\* position ((f + m) mod |pool|) + 1 is the validation row when the pool has
\* more than one row
ValidPos(f, m) ==
    LET pool == PoolOfFold(f)
    IN  IF Len(pool) > 1 THEN {((f + m) % Len(pool)) + 1} ELSE {}

SelectPos(s, keep) ==
    LET F[p \in 0..Len(s)] ==
            IF p = 0 THEN <<>>
            ELSE IF p \in keep THEN Append(F[p - 1], s[p]) ELSE F[p - 1]
    IN  F[Len(s)]

ValidOfFold(f, m) == SelectPos(PoolOfFold(f), ValidPos(f, m))
TrainOfFold(f, m) ==
    SelectPos(PoolOfFold(f), (1..Len(PoolOfFold(f))) \ ValidPos(f, m))

\* the exceptions a step of an iteration can end with
FatalErrors == {"KeyError", "ValueError"}

DrvInit ==
    /\ \E n \in 0..MaxN, seed \in 0..MaxSeed : df = Shuffle(n, seed)
    /\ k_fold \in 1..MaxK
    /\ ensemble_size \in 1..MaxEns
    /\ i = 0
    /\ j = 0
    /\ pc = "fold_loop"
    /\ train = <<>> /\ valid = <<>> /\ test = <<>>
    /\ predicted_activation_energies_ind = <<>>
    /\ predicted_reaction_energies_ind = <<>>
    /\ predicted_activation_energies = <<>>
    /\ predicted_reaction_energies = <<>>
    /\ rmse_activation_energy_list = <<>>
    /\ rmse_reaction_energy_list = <<>>
    /\ mae_activation_energy_list = <<>>
    /\ mae_reaction_energy_list = <<>>
    /\ fs = <<>>
    /\ reports = <<>>
    /\ err = "none"
    /\ started = <<>>

\* an uncaught exception ends the script: nothing in cross_val.py catches it
RaiseCaughtPerFold(e) ==
    /\ err' = e
    /\ pc' = "fold_loop"
    /\ i' = i + 1

Raise(e) ==
    /\ err' = e
    /\ pc' = "aborted"
    /\ i' = i

\* for i in range(args.k_fold): fold directory and empty prediction lists
FoldLoop ==
    /\ pc = "fold_loop"
    /\ i < k_fold
    /\ predicted_activation_energies_ind' = <<>>
    /\ predicted_reaction_energies_ind' = <<>>
    /\ j' = 0
    /\ pc' = "split"
    /\ UNCHANGED <<df, k_fold, ensemble_size, i, train, valid, test,
                   predicted_activation_energies, predicted_reaction_energies,
                   rmse_activation_energy_list, rmse_reaction_energy_list,
                   mae_activation_energy_list, mae_reaction_energy_list,
                   fs, reports, err, started>>
    /\ UNCHANGED norm_vars

lists_unchanged ==
    UNCHANGED <<rmse_activation_energy_list, rmse_reaction_energy_list,
                mae_activation_energy_list, mae_reaction_energy_list>>

\* a variant whose test range moves on with the member index
SplitTestPerMember ==
    /\ pc = "split"
    /\ started' = Append(started, <<i, j>>)
    /\ \/ /\ train' = TrainOfFold(i, j)
          /\ valid' = ValidOfFold(i, j)
          /\ test' = TestOfFold((i + j) % k_fold)
          /\ pc' = "prepare"
          /\ UNCHANGED <<err, i>>
       \/ /\ \E e \in FatalErrors : Raise(e)
          /\ UNCHANGED <<train, valid, test>>
    /\ UNCHANGED <<df, k_fold, ensemble_size, j,
                   predicted_activation_energies_ind, predicted_reaction_energies_ind,
                   predicted_activation_energies, predicted_reaction_energies,
                   fs, reports>>
    /\ lists_unchanged
    /\ UNCHANGED norm_vars

\* train, valid, test = split_data_cross_val(df, k_fold_arange, i, j, ...)
Split ==
    /\ pc = "split"
    /\ started' = Append(started, <<i, j>>)
    /\ \/ /\ train' = TrainOfFold(i, j)
          /\ valid' = ValidOfFold(i, j)
          /\ test' = TestOfFold(i)
          /\ pc' = "prepare"
          /\ UNCHANGED <<err, i>>
       \/ /\ \E e \in FatalErrors : Raise(e)
          /\ UNCHANGED <<train, valid, test>>
    /\ UNCHANGED <<df, k_fold, ensemble_size, j,
                   predicted_activation_energies_ind, predicted_reaction_energies_ind,
                   predicted_activation_energies, predicted_reaction_energies,
                   fs, reports>>
    /\ lists_unchanged
    /\ UNCHANGED norm_vars

\* Dataset(train), Dataset(valid), setup_and_scale_descriptors(...)
Prepare ==
    /\ pc = "prepare"
    /\ \/ /\ pc' = "train"
          /\ UNCHANGED <<err, i>>
       \/ \E e \in FatalErrors : Raise(e)
    /\ UNCHANGED <<df, k_fold, ensemble_size, j, train, valid, test,
                   predicted_activation_energies_ind, predicted_reaction_energies_ind,
                   predicted_activation_energies, predicted_reaction_energies,
                   fs, reports, started>>
    /\ lists_unchanged
    /\ UNCHANGED norm_vars

\* a variant in which a file that exists keeps its content
WriteFileKeepFirst(files, name, content) ==
    IF \E p \in DOMAIN files : files[p].name = name
    THEN [p \in DOMAIN files |->
            IF files[p].name = name
            THEN [files[p] EXCEPT !.writes = @ + 1]
            ELSE files[p]]
    ELSE Append(files, [name |-> name, writes |-> 1, content |-> content])

\* one more write of file `name`, now holding `content`
WriteFile(files, name, content) ==
    IF \E p \in DOMAIN files : files[p].name = name
    THEN [p \in DOMAIN files |->
            IF files[p].name = name
            THEN [name |-> name, writes |-> files[p].writes + 1, content |-> content]
            ELSE files[p]]
    ELSE Append(files, [name |-> name, writes |-> 1, content |-> content])

\* model.fit with the ModelCheckpoint callback, then the history pickle
Train ==
    /\ pc = "train"
    /\ \/ /\ fs' = WriteFile(WriteFile(fs, <<"best_model", i, j>>, j),
                             <<"history", i>>, j)
          /\ pc' = "predict"
          /\ UNCHANGED <<err, i>>
       \/ /\ \E e \in FatalErrors : Raise(e)
          /\ UNCHANGED fs
    /\ UNCHANGED <<df, k_fold, ensemble_size, j, train, valid, test,
                   predicted_activation_energies_ind, predicted_reaction_energies_ind,
                   predicted_activation_energies, predicted_reaction_energies,
                   reports, started>>
    /\ lists_unchanged
    /\ UNCHANGED norm_vars

\* the de-normalized predictions of one member for the test rows
MemberPrediction(base) == [p \in 1..Len(test) |-> base + (p - 1)]

AppendPredictionOverwrite(ind, pred) == <<pred>>

AppendPrediction(ind, pred) == Append(ind, pred)

\* predict_single_model and the two appends; then the next member
Predict ==
    /\ pc = "predict"
    /\ \/ /\ \E a \in PredVals, r \in PredVals :
                /\ predicted_activation_energies_ind' =
                      AppendPrediction(predicted_activation_energies_ind,
                                       MemberPrediction(a))
                /\ predicted_reaction_energies_ind' =
                      AppendPrediction(predicted_reaction_energies_ind,
                                       MemberPrediction(2 * r))
          /\ j' = j + 1
          /\ pc' = IF j + 1 < ensemble_size THEN "split" ELSE "aggregate"
          /\ UNCHANGED <<err, i>>
       \/ /\ \E e \in FatalErrors : Raise(e)
          /\ UNCHANGED <<j, predicted_activation_energies_ind,
                         predicted_reaction_energies_ind>>
    /\ UNCHANGED <<df, k_fold, ensemble_size, train, valid, test,
                   predicted_activation_energies, predicted_reaction_energies,
                   fs, reports, started>>
    /\ lists_unchanged
    /\ UNCHANGED norm_vars

\* np.sum(ind, axis=0) / n
SumOverMembers(ind, p) == SeqSum([m \in 1..Len(ind) |-> ind[m][p]])

EnsembleMeanBySize(ind, n) ==
    [p \in 1..Len(test) |-> Rat(SumOverMembers(ind, p), n + 1)]

EnsembleMean(ind, n) ==
    [p \in 1..Len(test) |-> Rat(SumOverMembers(ind, p), n)]

\* determine ensemble predictions
Aggregate ==
    /\ pc = "aggregate"
    /\ predicted_activation_energies' =
          EnsembleMean(predicted_activation_energies_ind,
                       Len(predicted_activation_energies_ind))
    /\ predicted_reaction_energies' =
          EnsembleMean(predicted_reaction_energies_ind,
                       Len(predicted_activation_energies_ind))
    /\ pc' = "write"
    /\ UNCHANGED <<df, k_fold, ensemble_size, i, j, train, valid, test,
                   predicted_activation_energies_ind, predicted_reaction_energies_ind,
                   fs, reports, err, started>>
    /\ lists_unchanged
    /\ UNCHANGED norm_vars

\* write_predictions(test_dataset.rxn_id, ..., test_predicted_{i}.csv)
WritePredictions ==
    /\ pc = "write"
    /\ fs' = WriteFile(fs, <<"test_predicted", i>>,
                       Len(predicted_activation_energies_ind))
    /\ pc' = "evaluate"
    /\ UNCHANGED <<df, k_fold, ensemble_size, i, j, train, valid, test,
                   predicted_activation_energies_ind, predicted_reaction_energies_ind,
                   predicted_activation_energies, predicted_reaction_energies,
                   reports, err, started>>
    /\ lists_unchanged
    /\ UNCHANGED norm_vars

AppendMetricTwice(list, f) == Append(Append(list, f), f)

AppendMetric(list, f) == Append(list, f)

\* evaluate(...) and the four appends; the metric of fold f is recorded as f
Evaluate ==
    /\ pc = "evaluate"
    /\ rmse_activation_energy_list' = AppendMetric(rmse_activation_energy_list, i)
    /\ mae_activation_energy_list' = AppendMetric(mae_activation_energy_list, i)
    /\ rmse_reaction_energy_list' = AppendMetric(rmse_reaction_energy_list, i)
    /\ mae_reaction_energy_list' = AppendMetric(mae_reaction_energy_list, i)
    /\ i' = i + 1
    /\ pc' = "fold_loop"
    /\ UNCHANGED <<df, k_fold, ensemble_size, j, train, valid, test,
                   predicted_activation_energies_ind, predicted_reaction_energies_ind,
                   predicted_activation_energies, predicted_reaction_energies,
                   fs, reports, err, started>>
    /\ UNCHANGED norm_vars

\* report final results at the end of the run: the means over the lists
Report ==
    /\ pc = "fold_loop"
    /\ i >= k_fold
    /\ reports' = Append(reports,
                         [rmse_activation_energy |-> Len(rmse_activation_energy_list),
                          rmse_reaction_energy |-> Len(rmse_reaction_energy_list),
                          mae_activation_energy |-> Len(mae_activation_energy_list),
                          mae_reaction_energy |-> Len(mae_reaction_energy_list)])
    /\ pc' = "done"
    /\ UNCHANGED <<df, k_fold, ensemble_size, i, j, train, valid, test,
                   predicted_activation_energies_ind, predicted_reaction_energies_ind,
                   predicted_activation_energies, predicted_reaction_energies,
                   fs, err, started>>
    /\ lists_unchanged
    /\ UNCHANGED norm_vars

\* ------------------------------------------------------------------------
\* process_descs/post_process.py: the descriptor normalizers
\* ------------------------------------------------------------------------
MaxShift == 1
MaxCalls == 2

ATOM_SCALE == {"NMR", "sasa"}

\* the structures of the atom descriptor table, in row order
AtomSmiles == <<"[HH]", "O", "[SeH2]">>

\* the reactions of the reaction descriptor table, in row order
RxnSmiles == <<"[HH].O>>O.[HH]", "O.O>>O.O", "[SeH2].O>>O.[SeH2]">>

\* get_atoms: the element symbols of the structure with explicit hydrogens
get_atoms(smiles) ==
    CASE smiles = "[HH]" -> <<"H", "H">>
      [] smiles = "O" -> <<"O", "H", "H">>
      [] smiles = "[SeH2]" -> <<"Se", "H", "H">>

\* the bonds of Chem.AddHs(Chem.MolFromSmiles(smiles)) by bond index:
\* <<GetBeginAtomIdx, GetEndAtomIdx>>
MolBonds(smiles) ==
    CASE smiles = "[HH]" -> <<<<0, 1>>>>
      [] smiles = "O" -> <<<<0, 1>>, <<0, 2>>>>
      [] smiles = "[SeH2]" -> <<<<0, 1>>, <<0, 2>>>>

AtomColumns == <<"smiles", "partial_charge", "NMR", "bond_order", "bond_length">>
RxnColumns == <<"smiles", "G", "E_r">>

\* the raw value of a cell of the loaded atom descriptor table
RawAtomCell(s, c, sh) ==
    CASE c = "smiles" -> s
      [] c = "partial_charge" -> [p \in 1..Len(get_atoms(s)) |-> RInt(sh + p - 1)]
      [] c = "NMR" -> [p \in 1..Len(get_atoms(s)) |-> RInt(2 * sh + p)]
      [] c = "bond_order" -> [b \in 1..Len(MolBonds(s)) |-> RInt(1 + ((sh + b) % 3))]
      [] c = "bond_length" -> [b \in 1..Len(MolBonds(s)) |-> RInt(4 + sh + b)]

\* the raw value of a cell of the loaded reaction descriptor table
RawRxnCell(s, c, sh, pos) ==
    CASE c = "smiles" -> s
      [] c = "G" -> RInt(sh)
      [] c = "E_r" -> RInt(pos + sh)

Without(seq, x) == SelectSeq(seq, LAMBDA c : c # x)

\* a DataFrame: its columns in order, its rows in order (by key), its cells
RawAtomTable(sh, drop, rows) ==
    LET cols == Without(AtomColumns, drop)
        idx == SelectSeq(AtomSmiles, LAMBDA s : s \in rows)
    IN  [columns |-> cols, index |-> idx,
         cell |-> [s \in Range(idx) |-> [c \in Range(cols) |-> RawAtomCell(s, c, sh[s])]]]

RawRxnTable(sh, drop, rows) ==
    LET cols == Without(RxnColumns, drop)
        idx == SelectSeq(RxnSmiles, LAMBDA s : s \in rows)
        pos(s) == CHOOSE p \in 1..Len(RxnSmiles) : RxnSmiles[p] = s
    IN  [columns |-> cols, index |-> idx,
         cell |-> [s \in Range(idx) |-> [c \in Range(cols) |-> RawRxnCell(s, c, sh[s], pos(s))]]]

NoTable == [columns |-> <<>>, index |-> <<>>, cell |-> <<>>]

\* df[df.smiles.isin(keys)]
RowsIn(t, keys) ==
    LET idx == SelectSeq(t.index, LAMBDA s : s \in keys)
    IN  [columns |-> t.columns, index |-> idx,
         cell |-> [s \in Range(idx) |-> t.cell[s]]]

\* df[c] = f: the column is replaced in place, or appended when new
SetColumn(t, c, f) ==
    LET cols == IF c \in Range(t.columns) THEN t.columns ELSE Append(t.columns, c)
    IN  [columns |-> cols, index |-> t.index,
         cell |-> [s \in Range(t.index) |->
                     [cc \in Range(cols) |-> IF cc = c THEN f[s] ELSE t.cell[s][cc]]]]

\* df[[columns kept]]
KeepColumns(t, keep) ==
    LET cols == SelectSeq(t.columns, LAMBDA c : c \in keep)
    IN  [columns |-> cols, index |-> t.index,
         cell |-> [s \in Range(t.index) |-> [c \in Range(cols) |-> t.cell[s][c]]]]

RECURSIVE Concat(_)
Concat(ss) == IF ss = <<>> THEN <<>> ELSE Head(ss) \o Concat(Tail(ss))

\* np.concatenate(df[c].tolist())
ConcatColumn(t, c) == Concat([p \in 1..Len(t.index) |-> t.cell[t.index[p]][c]])

Extend(f, k, v) == [x \in (DOMAIN f) \cup {k} |-> IF x = k THEN v ELSE f[x]]

\* ---- sklearn.preprocessing.MinMaxScaler ----
RMin(a, b) == IF RLess(b, a) THEN b ELSE a
RMax(a, b) == IF RLess(a, b) THEN b ELSE a

RECURSIVE SeqMin(_)
SeqMin(s) == IF Len(s) = 1 THEN s[1] ELSE RMin(s[1], SeqMin(Tail(s)))
RECURSIVE SeqMax(_)
SeqMax(s) == IF Len(s) = 1 THEN s[1] ELSE RMax(s[1], SeqMax(Tail(s)))

\* MinMaxScaler().fit(data), data non-empty
MinMaxFit(data) == [data_min |-> SeqMin(data), data_max |-> SeqMax(data)]

\* a variant that shifts by data_min and does not scale
MinMaxTransformUnscaled(scaler, x) == RSub(x, scaler.data_min)

\* scaler.transform: (x - data_min) * scale_, scale_ = 1 / data_range, and a
\* zero data_range is replaced by 1
MinMaxTransform(scaler, x) ==
    LET data_range == RSub(scaler.data_max, scaler.data_min)
    IN  RDiv(RSub(x, scaler.data_min),
             IF data_range = RZero THEN RInt(1) ELSE data_range)

\* ---- sklearn.preprocessing.StandardScaler ----
RECURSIVE RSum(_)
RSum(s) == IF s = <<>> THEN RZero ELSE RAdd(s[1], RSum(Tail(s)))

\* StandardScaler().fit(data), data non-empty: mean_ and var_
StandardFit(data) ==
    LET n == RInt(Len(data))
        mean == RDiv(RSum(data), n)
        sq == [p \in 1..Len(data) |-> RMul(RSub(data[p], mean), RSub(data[p], mean))]
    IN  [mean |-> mean, var |-> RDiv(RSum(sq), n)]

\* scaler.transform([[x]])[0]: a one-element array holding (x - mean_) / scale_,
\* scale_ = sqrt(var_) and a zero scale_ is replaced by 1; the quotient is kept
\* as numerator and squared denominator
StandardTransform(scaler, x) ==
    <<[num |-> RSub(x, scaler.mean),
       den2 |-> IF scaler.var = RZero THEN RInt(1) ELSE scaler.var]>>

MatrixColumns == {"bond_order_matrix", "bond_length_matrix"}

\* get_scaler(df): one MinMaxScaler per column, one per element for ATOM_SCALE
get_scaler(t) ==
    IF t.index = <<>>
    THEN \* np.concatenate of an empty list
         [err |-> "ValueError", scalers |-> <<>>]
    ELSE
    LET atoms == Concat([p \in 1..Len(t.index) |-> get_atoms(t.index[p])])
        Step(acc, column) ==
            IF column \notin ATOM_SCALE /\ column # "smiles"
            THEN IF column = "atoms"
                 THEN \* MinMaxScaler.fit on element symbols
                      [acc EXCEPT !.err = "ValueError"]
                 ELSE IF column \in MatrixColumns
                 THEN IF \E s1, s2 \in Range(t.index) :
                            Len(get_atoms(s1)) # Len(get_atoms(s2))
                      THEN \* np.concatenate of matrices of different widths
                           [acc EXCEPT !.err = "ValueError"]
                      ELSE [acc EXCEPT !.scalers =
                              Extend(@, column, MinMaxFit(Concat(ConcatColumn(t, column))))]
                 ELSE [acc EXCEPT !.scalers =
                              Extend(@, column, MinMaxFit(ConcatColumn(t, column)))]
            ELSE IF column \in ATOM_SCALE
            THEN LET data == ConcatColumn(t, column)
                 IN  IF Len(data) # Len(atoms)
                     THEN \* pd.DataFrame of arrays of different lengths
                          [acc EXCEPT !.err = "ValueError"]
                     ELSE [acc EXCEPT !.scalers =
                             Extend(@, column,
                                    [a \in Range(atoms) |->
                                       MinMaxFit(SelectPos(data,
                                           {p \in 1..Len(atoms) : atoms[p] = a}))])]
            ELSE acc
    IN  LET Columns[n \in 0..Len(t.columns)] ==
                \* for column in df.columns, until a column raises
                IF n = 0 THEN [err |-> "none", scalers |-> <<>>]
                ELSE LET prev == Columns[n - 1]
                     IN  IF prev.err # "none" THEN prev
                         ELSE Step(prev, t.columns[n])
            IN  Columns[Len(t.columns)]

Min2(a, b) == IF a < b THEN a ELSE b

\* a variant that leaves the value of an atom without scaler unscaled
min_max_by_atom_fallback(atoms, data, scaler) ==
    [err |-> "none",
     data |-> [p \in 1..Min2(Len(atoms), Len(data)) |->
                 IF atoms[p] \in DOMAIN scaler
                 THEN MinMaxTransform(scaler[atoms[p]], data[p])
                 ELSE data[p]]]

\* a variant that transforms every entry with the scaler of the first atom
min_max_by_atom_first_atom(atoms, data, scaler) ==
    LET n == Min2(Len(atoms), Len(data))
    IN  IF \E p \in 1..n : atoms[p] \notin DOMAIN scaler
        THEN [err |-> "KeyError", data |-> <<>>]
        ELSE [err |-> "none",
              data |-> [p \in 1..n |-> MinMaxTransform(scaler[atoms[1]], data[p])]]

\* min_max_by_atom: scaler[a].transform(d) for a, d in zip(atoms, data)
min_max_by_atom(atoms, data, scaler) ==
    LET n == Min2(Len(atoms), Len(data))
    IN  IF \E p \in 1..n : atoms[p] \notin DOMAIN scaler
        THEN [err |-> "KeyError", data |-> <<>>]
        ELSE [err |-> "none",
              data |-> [p \in 1..n |-> MinMaxTransform(scaler[atoms[p]], data[p])]]

\* a variant that sets only bond_matrix[begin, end]
bond_to_matrix_one_sided(smiles, bond_vector) ==
    LET A == Len(get_atoms(smiles))
        bonds == MolBonds(smiles)
        F[n \in 0..Len(bond_vector)] ==
            IF n = 0 THEN [p \in 1..A |-> [q \in 1..A |-> RZero]]
            ELSE [p \in 1..A |-> [q \in 1..A |->
                    IF p = bonds[n][1] + 1 /\ q = bonds[n][2] + 1
                    THEN bond_vector[n] ELSE F[n - 1][p][q]]]
    IN  F[Len(bond_vector)]

\* bond_to_matrix: zeros, then both (begin, end) and (end, begin) of bond i
\* are set to the i-th value of the vector
bond_to_matrix(smiles, bond_vector) ==
    LET A == Len(get_atoms(smiles))
        bonds == MolBonds(smiles)
        F[n \in 0..Len(bond_vector)] ==
            IF n = 0 THEN [p \in 1..A |-> [q \in 1..A |-> RZero]]
            ELSE [p \in 1..A |-> [q \in 1..A |->
                    IF \/ p = bonds[n][1] + 1 /\ q = bonds[n][2] + 1
                       \/ p = bonds[n][2] + 1 /\ q = bonds[n][1] + 1
                    THEN bond_vector[n] ELSE F[n - 1][p][q]]]
    IN  F[Len(bond_vector)]

\* the vector a bond column's matrix is built from: x['bond_order']
BondSource(column) == "bond_order"

\* ref_df of both normalizers: the rows whose smiles is in train_smiles
RefRowsAll(t, train_given, train_smiles) == t

RefRows(t, train_given, train_smiles) ==
    IF train_given THEN RowsIn(t, train_smiles) ELSE t

\* a variant that fits also when a bundle is supplied
AlwaysFitted(sc_given, sc, fitted) == fitted

\* if scalers is None: scalers = <the fit>; a supplied bundle is used as it is
SuppliedOrFitted(sc_given, sc, fitted) ==
    IF sc_given THEN [err |-> "none", scalers |-> sc] ELSE fitted

\* the fit of min_max_normalize_atom_descs: get_scaler(ref_df)
atom_fit(t, train_given, train_smiles) == get_scaler(RefRows(t, train_given, train_smiles))

\* min_max_normalize_atom_descs(df, scalers, train_smiles): df is the table
\* after the call, out the table returned
min_max_normalize_atom_descs(t, sc_given, sc, train_given, train_smiles) ==
    LET fit == SuppliedOrFitted(sc_given, sc, atom_fit(t, train_given, train_smiles))
        t1 == SetColumn(t, "atoms", [s \in Range(t.index) |-> get_atoms(s)])
        Step(acc, column) ==
            LET d == acc.df
            IN
            IF /\ column \notin ATOM_SCALE
               /\ column \notin {"smiles", "atoms", "bond_order", "bond_length"}
            THEN IF column \notin DOMAIN fit.scalers
                 THEN [acc EXCEPT !.err = "KeyError"]
                 ELSE LET flat(x) == IF column \in MatrixColumns THEN Concat(x) ELSE x
                      IN  [acc EXCEPT !.df = SetColumn(d, column,
                             [s \in Range(d.index) |->
                                [p \in 1..Len(flat(d.cell[s][column])) |->
                                   MinMaxTransform(fit.scalers[column],
                                                   flat(d.cell[s][column])[p])]])]
            ELSE IF column \in ATOM_SCALE
            THEN IF column \notin DOMAIN fit.scalers
                 THEN [acc EXCEPT !.err = "KeyError"]
                 ELSE LET by_atom == [s \in Range(d.index) |->
                                        min_max_by_atom(d.cell[s]["atoms"], d.cell[s][column],
                                                        fit.scalers[column])]
                      IN  IF \E s \in Range(d.index) : by_atom[s].err # "none"
                          THEN [acc EXCEPT !.err = "KeyError"]
                          ELSE [acc EXCEPT !.df = SetColumn(d, column,
                                  [s \in Range(d.index) |-> by_atom[s].data])]
            ELSE IF column \in {"bond_order", "bond_length"}
            THEN IF BondSource(column) \notin Range(d.columns)
                 THEN [acc EXCEPT !.err = "KeyError"]
                 ELSE IF \E s \in Range(d.index) :
                            Len(d.cell[s][BondSource(column)]) > Len(MolBonds(s))
                 THEN \* GetBondWithIdx beyond the last bond
                      [acc EXCEPT !.err = "RuntimeError"]
                 ELSE [acc EXCEPT !.df = SetColumn(d, column \o "_matrix",
                         [s \in Range(d.index) |->
                            bond_to_matrix(s, d.cell[s][BondSource(column)])])]
            ELSE acc
        res == LET Columns[n \in 0..Len(t1.columns)] ==
                    \* for column in df.columns, until a column raises
                    IF n = 0 THEN [err |-> "none", df |-> t1]
                    ELSE LET prev == Columns[n - 1]
                         IN  IF prev.err # "none" THEN prev
                             ELSE Step(prev, t1.columns[n])
                IN  Columns[Len(t1.columns)]
    IN  IF fit.err # "none"
        THEN [err |-> fit.err, df |-> t, out |-> NoTable, scalers |-> <<>>]
        ELSE IF res.err # "none"
        THEN [err |-> res.err, df |-> res.df, out |-> NoTable, scalers |-> <<>>]
        ELSE [err |-> "none", df |-> res.df,
              out |-> KeepColumns(res.df, Range(res.df.columns)
                         \ {"atoms", "bond_order", "bond_length", "smiles"}),
              scalers |-> fit.scalers]

\* a cell a reaction normalizer has already replaced by a one-element array
IsArrayCell(x) == Len(x) = 1

\* the fit of min_max_normalize_reaction_descs: one StandardScaler per column
\* of df, fitted on the values of ref_df
reaction_fit(t, train_given, train_smiles) ==
    LET ref_df == RefRows(t, train_given, train_smiles)
        FitStep(acc, column) ==
            IF column = "smiles" THEN acc
            ELSE IF ref_df.index = <<>>
            THEN \* StandardScaler.fit on no sample
                 [acc EXCEPT !.err = "ValueError"]
            ELSE IF \E s \in Range(ref_df.index) : IsArrayCell(ref_df.cell[s][column])
            THEN \* StandardScaler.fit on an array of 3 dimensions
                 [acc EXCEPT !.err = "ValueError"]
            ELSE [acc EXCEPT !.scalers =
                    Extend(@, column,
                           StandardFit([p \in 1..Len(ref_df.index) |->
                                          ref_df.cell[ref_df.index[p]][column]]))]
    IN  LET Columns[n \in 0..Len(t.columns)] ==
                \* for column in df.columns, until a column raises
                IF n = 0 THEN [err |-> "none", scalers |-> <<>>]
                ELSE LET prev == Columns[n - 1]
                     IN  IF prev.err # "none" THEN prev
                         ELSE FitStep(prev, t.columns[n])
            IN  Columns[Len(t.columns)]

\* min_max_normalize_reaction_descs(df, scalers, train_smiles): df is the
\* table after the call and also the table returned
min_max_normalize_reaction_descs(t, sc_given, sc, train_given, train_smiles) ==
    LET fit == SuppliedOrFitted(sc_given, sc, reaction_fit(t, train_given, train_smiles))
        Step(acc, column) ==
            LET d == acc.df
            IN
            IF column = "smiles" THEN acc
            ELSE IF column \notin DOMAIN fit.scalers
            THEN [acc EXCEPT !.err = "KeyError"]
            ELSE IF \E s \in Range(d.index) : IsArrayCell(d.cell[s][column])
            THEN \* scaler.transform on an array of 3 dimensions
                 [acc EXCEPT !.err = "ValueError"]
            ELSE [acc EXCEPT !.df = SetColumn(d, column,
                    [s \in Range(d.index) |->
                       StandardTransform(fit.scalers[column], d.cell[s][column])])]
        res == LET Columns[n \in 0..Len(t.columns)] ==
                    \* for column in df.columns, until a column raises
                    IF n = 0 THEN [err |-> "none", df |-> t]
                    ELSE LET prev == Columns[n - 1]
                         IN  IF prev.err # "none" THEN prev
                             ELSE Step(prev, t.columns[n])
                IN  Columns[Len(t.columns)]
    IN  IF fit.err # "none"
        THEN [err |-> fit.err, df |-> t, out |-> NoTable, scalers |-> <<>>]
        ELSE IF res.err # "none"
        THEN [err |-> res.err, df |-> res.df, out |-> NoTable, scalers |-> <<>>]
        ELSE [err |-> "none", df |-> res.df, out |-> res.df, scalers |-> fit.scalers]

\* ---- check_chemprop_out ----
\* the columns check_chemprop_out looks at, in its order
RequiredColumns == <<"partial_charge", "fukui_neu", "fukui_elec", "NMR",
                     "bond_order", "bond_length">>

\* a table of predicted descriptors with one row per record 0..n-1 of the
\* dataset: cell[s][c] is pd.isna of the array of row s and column c (one
\* flag per entry), and exactly the cells in `nan` have a NaN entry
ChempropOut(n, nan) ==
    [index |-> [p \in 1..n |-> p - 1],
     cell |-> [s \in 0..(n - 1) |->
                 [c \in Range(RequiredColumns) |-> <<FALSE, <<s, c>> \in nan>>]]]

\* check_chemprop_out(df): the smiles of the rows with a NaN in a required
\* column, in row order, each once (break after the first such column)
check_chemprop_out(t) ==
    SelectSeq(t.index,
              LAMBDA s : \E c \in Range(RequiredColumns) :
                            \E p \in 1..Len(t.cell[s][c]) : t.cell[s][c][p])

\* the keys and descriptor columns of the table that was loaded
KeysOf(kind) == IF kind = "atom" THEN Range(AtomSmiles) ELSE Range(RxnSmiles)
DescriptorsOf(kind) ==
    IF kind = "atom" THEN Range(AtomColumns) \ {"smiles"} ELSE Range(RxnColumns) \ {"smiles"}

\* the table as load_descriptors returned it
RawTable(kind, sh, drop, rows) ==
    IF kind = "atom" THEN RawAtomTable(sh, drop, rows) ELSE RawRxnTable(sh, drop, rows)

NoCall == [train_given |-> FALSE, train_smiles |-> {}, supplied |-> FALSE,
           was_raw |-> FALSE, given |-> NoTable]

\* the loaded table, as load_descriptors returned it
LoadedRaw == RawTable(loaded, shift, dropped, KeysOf(loaded))

NormInit ==
    /\ loaded \in {"atom", "reaction"}
    /\ shift \in [KeysOf(loaded) -> 0..MaxShift]
    /\ dropped \in {"none"} \cup DescriptorsOf(loaded)
    /\ byref \in BOOLEAN
    /\ qmdf = IF loaded = "atom"
              THEN RawAtomTable(shift, dropped, Range(AtomSmiles)) ELSE NoTable
    /\ df_reaction_desc = IF loaded = "reaction"
                          THEN RawRxnTable(shift, dropped, Range(RxnSmiles)) ELSE NoTable
    /\ scalers = <<>>
    /\ have_scalers = FALSE
    /\ normalized = NoTable
    /\ returned = FALSE
    /\ ncalls = 0
    /\ nerr = "none"
    /\ last = NoCall

\* the normalizers are not called: the state of a run without descriptors
NormIdle ==
    /\ loaded = "none"
    /\ shift = <<>>
    /\ dropped = "none"
    /\ byref = FALSE
    /\ qmdf = NoTable
    /\ df_reaction_desc = NoTable
    /\ scalers = <<>>
    /\ have_scalers = FALSE
    /\ normalized = NoTable
    /\ returned = FALSE
    /\ ncalls = 0
    /\ nerr = "none"
    /\ last = NoCall

\* the driver does not run: the normalizers are called on their own
DrvIdle ==
    /\ df = <<>>
    /\ k_fold = 1
    /\ ensemble_size = 1
    /\ i = 0
    /\ j = 0
    /\ pc = "idle"
    /\ train = <<>> /\ valid = <<>> /\ test = <<>>
    /\ predicted_activation_energies_ind = <<>>
    /\ predicted_reaction_energies_ind = <<>>
    /\ predicted_activation_energies = <<>>
    /\ predicted_reaction_energies = <<>>
    /\ rmse_activation_energy_list = <<>>
    /\ rmse_reaction_energy_list = <<>>
    /\ mae_activation_energy_list = <<>>
    /\ mae_reaction_energy_list = <<>>
    /\ fs = <<>>
    /\ reports = <<>>
    /\ err = "none"
    /\ started = <<>>

\* what a call leaves behind: the returned table and bundle, or the exception
AfterCall(r, t, train_given, train_smiles, supplied) ==
    /\ nerr' = r.err
    /\ returned' = (r.err = "none")
    /\ normalized' = r.out
    /\ scalers' = IF r.err = "none" THEN r.scalers ELSE scalers
    /\ have_scalers' = (have_scalers \/ r.err = "none")
    /\ ncalls' = ncalls + 1
    /\ last' = [train_given |-> train_given, train_smiles |-> train_smiles,
                supplied |-> supplied, was_raw |-> (t = LoadedRaw),
                given |-> r.df]
    /\ UNCHANGED <<loaded, shift, dropped, byref>>

\* a call min_max_normalize_atom_descs(qmdf or qmdf.copy(), scalers, train_smiles):
\* the caller's table is the table after the call when it was passed itself
NormalizeAtomDescs ==
    /\ loaded = "atom"
    /\ nerr = "none"
    /\ ncalls < MaxCalls
    /\ \E train_given \in BOOLEAN, train_smiles \in SUBSET Range(AtomSmiles),
          supplied \in BOOLEAN :
          /\ train_given \/ train_smiles = {}
          /\ supplied => have_scalers
          /\ LET r == min_max_normalize_atom_descs(qmdf, supplied, scalers,
                                                   train_given, train_smiles)
             IN  /\ qmdf' = IF byref THEN r.df ELSE qmdf
                 /\ AfterCall(r, qmdf, train_given, train_smiles, supplied)
    /\ UNCHANGED df_reaction_desc
    /\ UNCHANGED drv_vars

\* a call min_max_normalize_reaction_descs(df_reaction_desc or its copy, ...)
NormalizeReactionDescs ==
    /\ loaded = "reaction"
    /\ nerr = "none"
    /\ ncalls < MaxCalls
    /\ \E train_given \in BOOLEAN, train_smiles \in SUBSET Range(RxnSmiles),
          supplied \in BOOLEAN :
          /\ train_given \/ train_smiles = {}
          /\ supplied => have_scalers
          /\ LET r == min_max_normalize_reaction_descs(df_reaction_desc, supplied, scalers,
                                                       train_given, train_smiles)
             IN  /\ df_reaction_desc' = IF byref THEN r.df ELSE df_reaction_desc
                 /\ AfterCall(r, df_reaction_desc, train_given, train_smiles, supplied)
    /\ UNCHANGED qmdf
    /\ UNCHANGED drv_vars

Init == DrvInit /\ NormIdle

InitNorm == DrvIdle /\ NormInit

NextNorm ==
    \/ NormalizeAtomDescs
    \/ NormalizeReactionDescs

SpecNorm == InitNorm /\ [][NextNorm]_vars

Next ==
    \/ FoldLoop
    \/ Split
    \/ Prepare
    \/ Train
    \/ Predict
    \/ Aggregate
    \/ WritePredictions
    \/ Evaluate
    \/ Report

Spec == Init /\ [][Next]_vars

\* ------------------------------------------------------------------------
\* Properties of the cross-validation driver (checked under Spec)
\* ------------------------------------------------------------------------
TestIds(f) == Range(TestOfFold(f))

Folds == 0..(k_fold - 1)

\* C1: the k test ranges [b[f], b[f+1]) cut by k_fold_arange are pairwise
\* disjoint and together cover every row of the shuffled dataset exactly
\* once, also when there are fewer rows than folds (some ranges are then
\* empty); the test set of the fold being processed is its range.
C1_FoldsPartitionDataset ==
    /\ k_fold_arange[0] = 0
    /\ k_fold_arange[k_fold] = Len(df)
    /\ \A f \in Folds : k_fold_arange[f] <= k_fold_arange[f + 1]
    /\ \A f, g \in Folds : f # g => TestIds(f) \cap TestIds(g) = {}
    /\ UNION {TestIds(f) : f \in Folds} = 0..(Len(df) - 1)
    /\ SeqSum([f \in 1..k_fold |-> Len(TestOfFold(f - 1))]) = Len(df)
    /\ pc \in {"prepare", "train", "predict"} => test = TestOfFold(i)

\* fewer rows than folds: fold 0 is empty, the fold being processed is not
C1_Witness ==
    /\ pc = "prepare"
    /\ 0 < Len(df) /\ Len(df) < k_fold
    /\ TestOfFold(0) = <<>>
    /\ Len(test) = 1

\* the number of times file `name` was written
Writes(name) ==
    SeqSum([p \in 1..Len(fs) |-> IF fs[p].name = name THEN fs[p].writes ELSE 0])

MetricLists == <<rmse_activation_energy_list, rmse_reaction_energy_list,
                 mae_activation_energy_list, mae_reaction_energy_list>>

\* C8: in a run without error, once fold i - 1 is complete each of the four
\* metric lists has i entries and exactly the files test_predicted_0 ..
\* test_predicted_(i-1) exist, each written once and only after all
\* ensemble_size members of its fold predicted; the means are reported
\* once, only after all k folds, over exactly k values per metric.
C8_PerFoldAggregation ==
    err = "none" =>
        /\ \A l \in 1..4 : Len(MetricLists[l]) = i
        /\ \A l \in 1..4 : \A p \in 1..i : MetricLists[l][p] = p - 1
        /\ \A f \in Folds :
              Writes(<<"test_predicted", f>>) =
                 IF f < i \/ (f = i /\ pc = "evaluate") THEN 1 ELSE 0
        /\ \A p \in 1..Len(fs) :
              fs[p].name[1] = "test_predicted" => fs[p].content = ensemble_size
        /\ Len(reports) = IF pc = "done" THEN 1 ELSE 0
        /\ pc = "done" =>
              /\ i = k_fold
              /\ reports[1] = [rmse_activation_energy |-> k_fold,
                               rmse_reaction_energy |-> k_fold,
                               mae_activation_energy |-> k_fold,
                               mae_reaction_energy |-> k_fold]

C8_Witness ==
    /\ pc = "done"
    /\ err = "none"
    /\ k_fold = 3
    /\ ensemble_size = 2
    /\ Len(reports) = 1

\* C9: the ensemble prediction written and scored for each test reaction
\* and each target is the sum of the predictions of the ensemble_size
\* members of the fold for that reaction divided by ensemble_size.
C9_EnsembleIsArithmeticMean ==
    pc \in {"write", "evaluate"} =>
        /\ Len(predicted_activation_energies_ind) = ensemble_size
        /\ Len(predicted_reaction_energies_ind) = ensemble_size
        /\ Len(predicted_activation_energies) = Len(test)
        /\ Len(predicted_reaction_energies) = Len(test)
        /\ \A p \in 1..Len(test) :
              /\ predicted_activation_energies[p][1] * ensemble_size =
                    predicted_activation_energies[p][2] *
                       SeqSum([m \in 1..ensemble_size |->
                                  predicted_activation_energies_ind[m][p]])
              /\ predicted_reaction_energies[p][1] * ensemble_size =
                    predicted_reaction_energies[p][2] *
                       SeqSum([m \in 1..ensemble_size |->
                                  predicted_reaction_energies_ind[m][p]])

\* two members that predicted 0 and 1 for the first test reaction: mean 1/2
C9_Witness ==
    /\ pc = "write"
    /\ ensemble_size = 2
    /\ Len(test) >= 2
    /\ predicted_activation_energies[1] = <<1, 2>>
    /\ predicted_reaction_energies[2] = <<2, 1>>

\* C10: once a step of a (fold, member) iteration raised, the run is over:
\* no step is enabled (no later member or fold, no retry), no iteration was
\* begun twice, the lists hold no metric of the failing fold, its
\* prediction file was not written, and no final report was logged.
C10_FailFast ==
    /\ \A p, q \in 1..Len(started) : started[p] = started[q] => p = q
    /\ err # "none" =>
          /\ pc = "aborted"
          /\ ~ ENABLED Next
          /\ started[Len(started)] = <<i, j>>
          /\ \A l \in 1..4 : Len(MetricLists[l]) = i
          /\ Writes(<<"test_predicted", i>>) = 0
          /\ reports = <<>>

\* the second member of the second fold failed, after one complete fold
C10_Witness ==
    /\ err # "none"
    /\ pc = "aborted"
    /\ i = 1
    /\ j = 1
    /\ Len(rmse_activation_energy_list) = 1

\* ------------------------------------------------------------------------
\* Properties of the descriptor normalizers (checked under SpecNorm)
\* ------------------------------------------------------------------------
FitOf(kind, t, train_given, train_smiles) ==
    IF kind = "atom" THEN atom_fit(t, train_given, train_smiles)
    ELSE reaction_fit(t, train_given, train_smiles)

NormalizeOf(kind, t, sc_given, sc, train_given, train_smiles) ==
    IF kind = "atom"
    THEN min_max_normalize_atom_descs(t, sc_given, sc, train_given, train_smiles)
    ELSE min_max_normalize_reaction_descs(t, sc_given, sc, train_given, train_smiles)

\* the caller's table of the kind that was loaded
LoadedTable == IF loaded = "atom" THEN qmdf ELSE df_reaction_desc

\* C2: a bundle fitted (no bundle supplied) with train_smiles on the loaded
\* table equals the bundle fitted on every table that holds the same rows
\* for the structures in train_smiles and differs in the other rows, in
\* their values or in their presence: the fit reads training rows only.
C2_FitReadsOnlyTrainingRows ==
    (ncalls >= 1 /\ last.was_raw /\ last.train_given /\ ~ last.supplied) =>
        LET mine == FitOf(loaded, LoadedRaw, TRUE, last.train_smiles)
        IN  /\ returned => scalers = mine.scalers
            /\ \A sh2 \in [KeysOf(loaded) -> 0..MaxShift],
                  rows2 \in SUBSET KeysOf(loaded) :
                  (/\ last.train_smiles \subseteq rows2
                   /\ \A s \in last.train_smiles : sh2[s] = shift[s])
                  => FitOf(loaded, RawTable(loaded, sh2, dropped, rows2),
                           TRUE, last.train_smiles) = mine

\* a fit on water and SeH2 while the table also holds H2, whose hydrogen
\* values lie outside the range of the training rows
C2_Witness ==
    /\ loaded = "atom"
    /\ returned
    /\ ~ last.supplied
    /\ last.train_given
    /\ last.was_raw
    /\ last.train_smiles = {"O", "[SeH2]"}
    /\ dropped = "none"
    /\ shift["[HH]"] = 1 /\ shift["O"] = 0 /\ shift["[SeH2]"] = 0

\* C3: a normalization call leaves the table it was given, and so the
\* loaded table, holding its raw values, and a call that fits ends as the
\* same call on the raw table does, returning the bundle fitted on the raw
\* values of its training rows.
C3_NoCrossFoldSharing ==
    ncalls >= 1 =>
        /\ last.given = LoadedRaw
        /\ LoadedTable = LoadedRaw
        /\ ~ last.supplied =>
              LET r == NormalizeOf(loaded, LoadedRaw, FALSE, <<>>,
                                   last.train_given, last.train_smiles)
              IN  /\ nerr = r.err
                  /\ returned => scalers = r.scalers

\* the elements the bundle of the last call has a scaler for
ElementsOf(keys) == UNION {Range(get_atoms(s)) : s \in keys}

UsedElements ==
    IF last.supplied
    THEN IF "NMR" \in DOMAIN scalers THEN DOMAIN scalers["NMR"] ELSE {}
    ELSE IF last.train_given THEN ElementsOf(last.train_smiles)
    ELSE ElementsOf(Range(AtomSmiles))

\* the last call normalized NMR of the raw atom table with a bundle that
\* has no scaler for the element of one of the table's atoms
UnseenAtomTypeCase ==
    /\ loaded = "atom"
    /\ ncalls >= 1
    /\ last.was_raw
    /\ dropped # "NMR"
    /\ last.supplied \/ ~ last.train_given \/ last.train_smiles # {}
    /\ \E a \in ElementsOf(Range(AtomSmiles)) : a \notin UsedElements

C5_BondMatrixFromOwnVector ==
    (loaded = "atom" /\ returned /\ last.was_raw) =>
        \A column \in {"bond_order", "bond_length"} \ {dropped} :
            \A s \in Range(AtomSmiles) : \A b \in 1..Len(MolBonds(s)) :
                LET M == normalized.cell[s][column \o "_matrix"]
                    p == MolBonds(s)[b][1] + 1
                    q == MolBonds(s)[b][2] + 1
                IN  /\ M[p][q] = LoadedRaw.cell[s][column][b]
                    /\ M[q][p] = LoadedRaw.cell[s][column][b]

\* atoms p and q of s are joined by a bond the bond vector of s indexes
Bonded(s, p, q) ==
    \E b \in 1..Len(RawAtomCell(s, BondSource("bond_order"), shift[s])) :
        {MolBonds(s)[b][1] + 1, MolBonds(s)[b][2] + 1} = {p, q}

MatricesWellFormed(t) ==
    \A s \in Range(t.index) : \A c \in MatrixColumns \cap Range(t.columns) :
        LET M == t.cell[s][c]
            A == Len(get_atoms(s))
        IN  /\ Len(M) = A
            /\ \A p \in 1..A : Len(M[p]) = A /\ M[p][p] = RZero
            /\ \A p, q \in 1..A :
                  /\ M[p][q] = M[q][p]
                  /\ ~ Bonded(s, p, q) => M[p][q] = RZero

\* C6: every matrix bond_to_matrix built, in the table returned and in the
\* table given, is A x A for the A atoms of its structure, symmetric, zero
\* on the diagonal and zero for every pair of atoms not joined by a bond
\* that the bond vector indexes.
C6_BondMatrixSymmetric ==
    loaded = "atom" =>
        /\ MatricesWellFormed(normalized)
        /\ MatricesWellFormed(last.given)
        /\ MatricesWellFormed(qmdf)

\* water: O-H is set on both sides, H-H is not bonded
C6_Witness ==
    /\ loaded = "atom"
    /\ returned
    /\ "bond_order_matrix" \in Range(normalized.columns)
    /\ normalized.cell["O"]["bond_order_matrix"][1][2] # RZero
    /\ normalized.cell["O"]["bond_order_matrix"][2][1] # RZero
    /\ normalized.cell["O"]["bond_order_matrix"][2][3] = RZero

\* C7: a call on a table that lacks a descriptor column of the model
\* configuration raises MissingDescriptorError and returns no table.
C7_MissingDescriptorRaises ==
    (ncalls >= 1 /\ last.was_raw /\ dropped # "none") =>
        (nerr = "MissingDescriptorError" /\ ~ returned)

\* the last call fitted a bundle on reference rows of the raw atom table and
\* returned
FittedOnRawAtoms ==
    /\ loaded = "atom"
    /\ returned
    /\ ~ last.supplied
    /\ last.was_raw

\* the structures of the reference rows of the last call
RefKeys == IF last.train_given THEN last.train_smiles ELSE Range(AtomSmiles)

\* the scalers of the bundle: <<column, "all">> for an ungrouped column,
\* <<column, element>> for an atom-type-scaled column
FittedGroups ==
    {<<c, "all">> : c \in (DOMAIN scalers) \ ATOM_SCALE} \cup
    UNION {{<<c, a>> : a \in DOMAIN scalers[c]} : c \in (DOMAIN scalers) \cap ATOM_SCALE}

ScalerOfGroup(g) == IF g[1] \in ATOM_SCALE THEN scalers[g[1]][g[2]] ELSE scalers[g[1]]

\* the raw values of the reference rows a scaler of the bundle stands for
ReferenceValues(g) ==
    UNION {{LoadedRaw.cell[s][g[1]][p] :
               p \in {q \in 1..Len(LoadedRaw.cell[s][g[1]]) :
                        g[1] \notin ATOM_SCALE \/ get_atoms(s)[q] = g[2]}} :
           s \in RefKeys}

IsMinOf(a, V) == a \in V /\ \A v \in V : ~ RLess(v, a)
IsMaxOf(b, V) == b \in V /\ \A v \in V : ~ RLess(b, v)

\* C11 (as amended): every min-max scaler of a fitted bundle holds the
\* minimum a and the maximum b of its reference values; it transforms a to
\* 0, and b to 1 when a < b; when all reference values are equal (a = b)
\* it transforms that value to 0, not to 1.
C11_RoundTripUnlessConstant ==
    FittedOnRawAtoms =>
        \A g \in FittedGroups :
            LET sc == ScalerOfGroup(g)
                a == sc.data_min
                b == sc.data_max
            IN  /\ IsMinOf(a, ReferenceValues(g))
                /\ IsMaxOf(b, ReferenceValues(g))
                /\ MinMaxTransform(sc, a) = RZero
                /\ a # b => MinMaxTransform(sc, b) = RInt(1)
                /\ a = b => MinMaxTransform(sc, b) = RZero

\* C11 as stated: also a scaler fitted on equal values transforms b to 1
C11_MinMaxRoundTrip ==
    FittedOnRawAtoms =>
        \A g \in FittedGroups :
            LET sc == ScalerOfGroup(g)
            IN  /\ MinMaxTransform(sc, sc.data_min) = RZero
                /\ MinMaxTransform(sc, sc.data_max) = RInt(1)

\* a bundle with a scaler fitted on a single value (the one oxygen atom) and
\* a scaler fitted on values more than 1 apart
C11_Witness ==
    /\ FittedOnRawAtoms
    /\ <<"NMR", "O">> \in FittedGroups
    /\ scalers["NMR"]["O"].data_min = scalers["NMR"]["O"].data_max
    /\ "partial_charge" \in DOMAIN scalers
    /\ RLess(RInt(1), RSub(scalers["partial_charge"].data_max,
                           scalers["partial_charge"].data_min))

\* the steps between the split of a member and the end of its fold
InFold == pc \in {"prepare", "train", "predict", "aggregate", "write", "evaluate"}

\* C12: no step changes the shuffled dataset, k_fold or the boundaries
\* computed from them; the split of every later member of a fold yields the
\* test set the first member got, which is the range of the fold; and every
\* per-member prediction of the fold has one row per reaction of that test
\* set.
C12_TestSetSameForAllMembers ==
    /\ [](InFold =>
            /\ test = TestOfFold(i)
            /\ \A m \in 1..Len(predicted_activation_energies_ind) :
                  /\ Len(predicted_activation_energies_ind[m]) = Len(test)
                  /\ Len(predicted_reaction_energies_ind[m]) = Len(test))
    /\ [][/\ df' = df
          /\ k_fold' = k_fold
          /\ k_fold_arange' = k_fold_arange
          /\ (pc = "split" /\ pc' = "prepare" /\ j > 0) => test' = test]_vars

\* the second member of the second fold was split and got a test set that
\* is not empty and differs from the test set of the first fold
C12_Witness ==
    /\ pc = "prepare"
    /\ i = 1
    /\ j = 1
    /\ test # <<>>
    /\ test # TestOfFold(0)
    /\ Len(predicted_activation_energies_ind) = 1

\* the descriptor tables considered for a dataset of n records: any set of
\* rows with a NaN in one required column (or no NaN at all)
NaNTables(n) ==
    {ChempropOut(n, {<<r, c>> : r \in R}) :
        R \in SUBSET (0..(n - 1)), c \in Range(RequiredColumns)}

\* the records the run works on: the dataset and the sets of the fold
RecordsInUse ==
    Range(df) \cup Range(train) \cup Range(valid) \cup Range(test)
        \cup UNION {TestIds(f) : f \in Folds}

\* C13: whatever descriptor table belongs to the records of the dataset,
\* check_chemprop_out flags exactly the records with a NaN in a required
\* column, and no flagged record is in the dataset that is split or in a
\* train, validation or test set of a fold.
C13_InvalidRecordsExcluded ==
    \A t \in NaNTables(Len(df)) :
        LET invalid == check_chemprop_out(t)
        IN  /\ \A s \in Range(t.index) :
                  s \in Range(invalid) <=>
                     \E c \in Range(RequiredColumns) : TRUE \in Range(t.cell[s][c])
            /\ \A s \in Range(invalid) : s \notin RecordsInUse

\* C14: a fitted bundle has, for an atom-type-scaled column, exactly one
\* scaler per element that occurs in the reference rows, holding the minimum
\* and maximum of the values of the reference atoms of that element, and
\* for every other descriptor column one scaler over all reference values;
\* the returned vector of an atom-type-scaled column has one entry per atom
\* of the structure, entry p being the raw entry p transformed by the scaler
\* of the element of atom p, and the vector of another atom descriptor is
\* transformed entry by entry by the one scaler of its column.
C14_PerElementScalers ==
    FittedOnRawAtoms =>
        /\ DOMAIN scalers = Range(LoadedRaw.columns) \ {"smiles"}
        /\ \A c \in (DOMAIN scalers) \cap ATOM_SCALE :
              DOMAIN scalers[c] = ElementsOf(RefKeys)
        /\ \A g \in FittedGroups :
              /\ IsMinOf(ScalerOfGroup(g).data_min, ReferenceValues(g))
              /\ IsMaxOf(ScalerOfGroup(g).data_max, ReferenceValues(g))
        /\ \A s \in Range(AtomSmiles) :
              \A c \in (DOMAIN scalers) \ {"bond_order", "bond_length"} :
                 LET raw == LoadedRaw.cell[s][c]
                     out == normalized.cell[s][c]
                 IN  /\ Len(out) = Len(get_atoms(s))
                     /\ \A p \in 1..Len(out) :
                           out[p] = MinMaxTransform(
                                       IF c \in ATOM_SCALE
                                       THEN scalers[c][get_atoms(s)[p]]
                                       ELSE scalers[c],
                                       raw[p])

\* a fit on water and SeH2: three element scalers, hydrogen pooled over both
\* structures; the hydrogens of H2, outside the reference range, get 1 and 2
C14_Witness ==
    /\ FittedOnRawAtoms
    /\ "NMR" \in DOMAIN scalers
    /\ last.train_given
    /\ last.train_smiles = {"O", "[SeH2]"}
    /\ DOMAIN scalers["NMR"] = {"O", "H", "Se"}
    /\ normalized.cell["[HH]"]["NMR"] = <<RInt(1), RInt(2)>>
    /\ normalized.cell["O"]["NMR"][1] = RZero

\* the last call was given a bundle and the raw loaded table, and returned
AppliedSupplied ==
    /\ ncalls >= 1
    /\ last.supplied
    /\ last.was_raw
    /\ returned

\* C15: a call that is given a bundle returns that bundle unchanged (no fit,
\* no refit); and the table it returns is, row by row, what the same bundle
\* yields for any other train_smiles (given or not) and for any table that
\* holds only some of the rows: the output depends on the bundle and on the
\* values of the row alone.
C15_SuppliedBundleNotRefitted ==
    /\ [][(ncalls' = ncalls + 1 /\ last'.supplied /\ returned') =>
             scalers' = scalers]_vars
    /\ [](AppliedSupplied =>
            \A rows2 \in (SUBSET KeysOf(loaded)) \ {{}} :
               \A tg2 \in BOOLEAN : \A ts2 \in SUBSET KeysOf(loaded) :
                  (tg2 \/ ts2 = {}) =>
                     LET r2 == NormalizeOf(loaded,
                                           RawTable(loaded, shift, dropped, rows2),
                                           TRUE, scalers, tg2, ts2)
                     IN  /\ r2.err = "none"
                         /\ r2.scalers = scalers
                         /\ \A s \in rows2 : r2.out.cell[s] = normalized.cell[s])

\* a bundle fitted on all rows was supplied together with a train_smiles on
\* which a fit would have given another bundle
C15_Witness ==
    /\ AppliedSupplied
    /\ ncalls = 2
    /\ last.train_given
    /\ last.train_smiles # {}
    /\ FitOf(loaded, LoadedRaw, TRUE, last.train_smiles).err = "none"
    /\ FitOf(loaded, LoadedRaw, TRUE, last.train_smiles).scalers # scalers

\* the number of members of fold f that have been trained, in a run without
\* error
Trained(f) ==
    IF f < i THEN ensemble_size
    ELSE IF f > i \/ pc \in {"fold_loop", "done"} THEN 0
    ELSE IF pc = "predict" THEN j + 1
    ELSE j

\* the files of fold f whose name starts with `kind`
FilesOf(kind, f) == {p \in DOMAIN fs : fs[p].name[1] = kind /\ fs[p].name[2] = f}

\* C16: in a run without error, the members of fold f trained so far have
\* each written their own checkpoint file best_model_m once, and all of them
\* have written the one file history_f, which holds the history of the last
\* of them; so a complete fold has ensemble_size checkpoint files and one
\* history file, written ensemble_size times and holding the history of
\* member ensemble_size - 1.
C16_OneHistoryFilePerFold ==
    err = "none" =>
        \A f \in Folds :
            /\ Cardinality(FilesOf("best_model", f)) = Trained(f)
            /\ \A m \in 0..(ensemble_size - 1) :
                  Writes(<<"best_model", f, m>>) = IF m < Trained(f) THEN 1 ELSE 0
            /\ \A p \in FilesOf("best_model", f) : fs[p].content = fs[p].name[3]
            /\ Cardinality(FilesOf("history", f)) = IF Trained(f) > 0 THEN 1 ELSE 0
            /\ Writes(<<"history", f>>) = Trained(f)
            /\ \A p \in FilesOf("history", f) : fs[p].content = Trained(f) - 1

\* a complete first fold of two members: two checkpoints, and one history
\* file that the second member has overwritten
C16_Witness ==
    /\ err = "none"
    /\ pc = "fold_loop"
    /\ i = 1
    /\ ensemble_size = 2
    /\ Cardinality(FilesOf("best_model", 0)) = 2
    /\ Writes(<<"history", 0>>) = 2
    /\ \A p \in FilesOf("history", 0) : fs[p].content = 1

====
